---------------------------- MODULE Spec2Model ----------------------------
(***************************************************************************)
(* A model of vs/editor/common/core/lineTokens.ts: the packed token buffer *)
(* LineTokens of one line (a Uint32Array holding, per token, its end       *)
(* offset and its metadata word, plus the line's text) and the cursor      *)
(* LineTokensIterator that walks it.                                       *)
(*                                                                         *)
(* A Uint32Array is a sequence; slot i of the source (0-based) is element  *)
(* i+1 here.  Cursors are objects: the heap maps addresses to cursor       *)
(* records and the client's variables hold addresses, so that two          *)
(* variables naming one object is a state the model can be in.             *)
(***************************************************************************)
EXTENDS Integers, Sequences, FiniteSets

VARIABLES
    tokens,   \* LineTokens._tokens (before construction: the tokenizer's array)
    text,     \* LineTokens._text, a sequence of characters
    other,    \* a second LineTokens, the argument of equals: [tokens, text]
    heap,     \* address -> LineTokensIterator object, or Free
    ref,      \* the client's cursor variables: variable -> address, or Null
    op,       \* the last call made: [name, args]
    ret,      \* what the last call returned
    pc,       \* the traversal loop's position
    dir,      \* the traversal loop's direction
    visited,  \* the positions the traversal loop has seen, in order
    moves     \* the traversal loop's count of moves that did not return null

vars == <<tokens, text, other, heap, ref, op, ret, pc, dir, visited, moves>>

---------------------------------------------------------------------------
(* Bounds of the model. *)

\* Longest line and most tokens of the buffers that are searched, sliced and converted.
MaxTextLen == 9
MaxTokens == 3
\* Longest line and most tokens of the buffers the cursors walk.
MaxCursorTextLen == 4
MaxCursorTokens == 3
\* Largest deltaOffset handed to sliceAndInflate.
MaxDelta == 1
\* Longest backing array and largest element of the buffers equals compares,
\* and of the arbitrary arrays a buffer is constructed over.
MaxRawLen == 3
MaxRawValue == 2

\* The metadata words of the model's tokens: opaque 32-bit words.
MetaWords == {5, 6}
\* The characters of the model's texts.
Chars == {"a", "b"}
\* The client's cursor variables and the addresses cursor objects live at.
CursorVars == {"a", "b"}
Addrs == {1, 2, 3}

---------------------------------------------------------------------------
(* Typed arrays. *)

\* The value of reading a slot that is not in the array.
Undefined == -1
\* No object.
Null == 0

\* arr[i]: an index that is not in the array reads as undefined.
Get(arr, i) == IF i >= 0 /\ i < Len(arr) THEN arr[i + 1] ELSE Undefined
\* arr[i] = v: a write to an index that is not in the array is ignored.  The
\* values written are elements of the array and the length of a string, all
\* below 2^32, so none is changed by being stored.
Put(arr, i, v) == IF i >= 0 /\ i < Len(arr) THEN [arr EXCEPT ![i + 1] = v] ELSE arr

\* x << 1 and x >>> 1, for the small values of the model.
Shl1(x) == 2 * x
Shr1(x) == x \div 2

---------------------------------------------------------------------------
(* LineTokens: construction and accessors. *)

\* new LineTokens(tokens, text)
LineTokens(toks, txt) ==
    [tokens |-> toks, tokensCount |-> Shr1(Len(toks)), text |-> txt, textLength |-> Len(txt)]

\* The buffer under test.
This == LineTokens(tokens, text)

getCount(lt) == lt.tokensCount

getStartOffset(lt, tokenIndex) ==
    IF tokenIndex > 0 THEN Get(lt.tokens, Shl1(tokenIndex - 1)) ELSE 0

getEndOffset(lt, tokenIndex) == Get(lt.tokens, Shl1(tokenIndex))

\* The metadata word the accessors getLanguageId .. getInlineStyle decode.
getMetadata(lt, tokenIndex) == Get(lt.tokens, Shl1(tokenIndex) + 1)

---------------------------------------------------------------------------
(* LineTokens.equals *)

RECURSIVE equalsLoop(_, _, _, _)
equalsLoop(a, b, i, len) ==
    IF i < len
    THEN IF Get(a, i) # Get(b, i) THEN FALSE ELSE equalsLoop(a, b, i + 1, len)
    ELSE TRUE

equals(this, that) ==
    IF this.text # that.text THEN FALSE
    ELSE IF this.tokensCount # that.tokensCount THEN FALSE
    ELSE equalsLoop(this.tokens, that.tokens, 0, Len(this.tokens))

---------------------------------------------------------------------------
(* LineTokens.convertToEndOffset *)

\* A slip: the copy reads the next token's metadata slot.
RECURSIVE convertLoopFromMetadata(_, _, _)
convertLoopFromMetadata(toks, tokenIndex, lastTokenIndex) ==
    IF tokenIndex < lastTokenIndex
    THEN convertLoopFromMetadata(
             Put(toks, Shl1(tokenIndex), Get(toks, Shl1(tokenIndex + 1) + 1)),
             tokenIndex + 1, lastTokenIndex)
    ELSE toks

RECURSIVE convertLoop(_, _, _)
convertLoop(toks, tokenIndex, lastTokenIndex) ==
    IF tokenIndex < lastTokenIndex
    THEN convertLoop(Put(toks, Shl1(tokenIndex), Get(toks, Shl1(tokenIndex + 1))),
                     tokenIndex + 1, lastTokenIndex)
    ELSE toks

\* A slip: the line's length is stored one token too far.
convertToEndOffsetPastLast(toks, lineTextLength) ==
    LET tokenCount == Shr1(Len(toks))
        lastTokenIndex == tokenCount - 1
    IN  Put(convertLoop(toks, 0, lastTokenIndex), Shl1(tokenCount), lineTextLength)


convertToEndOffset(toks, lineTextLength) ==
    LET tokenCount == Shr1(Len(toks))
        lastTokenIndex == tokenCount - 1
    IN  Put(convertLoop(toks, 0, lastTokenIndex), Shl1(lastTokenIndex), lineTextLength)

---------------------------------------------------------------------------
(* ViewLineTokenFactory: the two functions LineTokens delegates to.  They  *)
(* live in vs/editor/common/core/viewLineToken.ts; they are modelled from  *)
(* the buffer's documented contract.                                       *)

Min(a, b) == IF a < b THEN a ELSE b
Max(a, b) == IF a > b THEN a ELSE b

\* Binary search over the end offsets: an end offset equal to the searched
\* offset sends the search to the token that starts there.
RECURSIVE searchSegments(_, _, _, _)
searchSegments(toks, desiredIndex, low, high) ==
    IF low < high
    THEN LET mid == low + ((high - low) \div 2)
             endOffset == Get(toks, Shl1(mid))
         IN  IF endOffset = desiredIndex THEN mid + 1
             ELSE IF endOffset < desiredIndex
                  THEN searchSegments(toks, desiredIndex, mid + 1, high)
                  ELSE searchSegments(toks, desiredIndex, low, mid)
    ELSE low

findIndexInSegmentsArray(toks, desiredIndex) ==
    IF desiredIndex <= 0 \/ Shr1(Len(toks)) = 0 THEN 0
    ELSE searchSegments(toks, desiredIndex, 0, Shr1(Len(toks)) - 1)

\* A materialised token: its range in the shifted coordinates and its metadata word.
ViewLineToken(startOffset, endOffset, metadata) ==
    [startOffset |-> startOffset, endOffset |-> endOffset, metadata |-> metadata]

\* From the token holding startOffset on, one descriptor per token that overlaps
\* the slice, clipped to it and shifted; it stops at the first token that starts
\* at or after the slice's end.
RECURSIVE sliceLoop(_, _, _, _, _, _)
sliceLoop(toks, i, startOffset, endOffset, deltaOffset, result) ==
    LET tokenStartOffset == IF i > 0 THEN Get(toks, Shl1(i - 1)) ELSE 0
        tokenEndOffset == Get(toks, Shl1(i))
        from == Max(tokenStartOffset, startOffset)
        to == Min(tokenEndOffset, endOffset)
    IN  IF i >= Shr1(Len(toks)) \/ tokenStartOffset >= endOffset THEN result
        ELSE sliceLoop(toks, i + 1, startOffset, endOffset, deltaOffset,
                       IF from < to
                       THEN Append(result, ViewLineToken(from + deltaOffset, to + deltaOffset,
                                                         Get(toks, Shl1(i) + 1)))
                       ELSE result)

factorySliceAndInflate(toks, startOffset, endOffset, deltaOffset, lineLength) ==
    sliceLoop(toks, findIndexInSegmentsArray(toks, startOffset), startOffset,
              Min(endOffset, lineLength), deltaOffset, <<>>)

---------------------------------------------------------------------------
(* LineTokens: search and slicing. *)

\* A slip: the search is handed the offset after the one asked for.
findTokenIndexAtOffsetNextOffset(lt, offset) ==
    findIndexInSegmentsArray(lt.tokens, offset + 1)


findTokenIndexAtOffset(lt, offset) == findIndexInSegmentsArray(lt.tokens, offset)

\* A slip: the slice's two ends are handed over in the wrong order.
sliceAndInflateSwapped(lt, startOffset, endOffset, deltaOffset) ==
    factorySliceAndInflate(lt.tokens, endOffset, startOffset, deltaOffset, lt.textLength)


sliceAndInflate(lt, startOffset, endOffset, deltaOffset) ==
    factorySliceAndInflate(lt.tokens, startOffset, endOffset, deltaOffset, lt.textLength)

---------------------------------------------------------------------------
(* LineTokensIterator.  An operation on the heap h yields the heap after   *)
(* it and the value it returns.                                            *)

\* An address that holds no object.
Free == [free |-> TRUE]

_set(it, tokenIndex, startOffset, endOffset, metadata) ==
    [it EXCEPT !.tokenIndex = tokenIndex, !.metadata = metadata,
               !.startOffset = startOffset, !.endOffset = endOffset]

\* The constructor's object.
LineTokensIterator(source, tokenIndex, tokenCount, startOffset, endOffset, metadata) ==
    _set([source |-> source, tokenCount |-> tokenCount, tokenIndex |-> Undefined,
          metadata |-> Undefined, startOffset |-> Undefined, endOffset |-> Undefined],
         tokenIndex, startOffset, endOffset, metadata)

\* new: the object is placed at the first address that holds none.
New(h, obj) ==
    LET a == CHOOSE x \in Addrs : h[x] = Free /\ \A y \in Addrs : h[y] = Free => x <= y
    IN  [heap |-> [h EXCEPT ![a] = obj], ret |-> a]

\* Objects no variable refers to are collected.
Collect(h, r) == [a \in Addrs |-> IF \E v \in CursorVars : r[v] = a THEN h[a] ELSE Free]

\* Slips: the two tests are off by one.
hasPrevOffByOne(it) == it.tokenIndex >= 0
hasNextOffByOne(it) == it.tokenIndex < it.tokenCount


hasPrev(it) == it.tokenIndex > 0
hasNext(it) == it.tokenIndex + 1 < it.tokenCount

\* A slip: the start offset is read from the token's own slot.
tokenAtOwnSlot(h, lt, tokenIndex, dest) ==
    LET startOffset == IF tokenIndex > 0 THEN Get(lt.tokens, Shl1(tokenIndex)) ELSE 0
        endOffset == Get(lt.tokens, Shl1(tokenIndex))
        metadata == Get(lt.tokens, Shl1(tokenIndex) + 1)
    IN  IF dest # Null
        THEN [heap |-> [h EXCEPT ![dest] =
                            _set(h[dest], tokenIndex, startOffset, endOffset, metadata)],
              ret |-> dest]
        ELSE New(h, LineTokensIterator("this", tokenIndex, lt.tokensCount,
                                       startOffset, endOffset, metadata))


tokenAt(h, lt, tokenIndex, dest) ==
    LET startOffset == IF tokenIndex > 0 THEN Get(lt.tokens, Shl1(tokenIndex - 1)) ELSE 0
        endOffset == Get(lt.tokens, Shl1(tokenIndex))
        metadata == Get(lt.tokens, Shl1(tokenIndex) + 1)
    IN  IF dest # Null
        THEN [heap |-> [h EXCEPT ![dest] =
                            _set(h[dest], tokenIndex, startOffset, endOffset, metadata)],
              ret |-> dest]
        ELSE New(h, LineTokensIterator("this", tokenIndex, lt.tokensCount,
                                       startOffset, endOffset, metadata))

\* A slip: clone hands back the cursor itself.
cloneSameObject(h, this) == [heap |-> h, ret |-> this]


clone(h, this) ==
    New(h, LineTokensIterator(h[this].source, h[this].tokenIndex, h[this].tokenCount,
                              h[this].startOffset, h[this].endOffset, h[this].metadata))

prev(h, lt, this) ==
    IF ~hasPrev(h[this]) THEN [heap |-> h, ret |-> Null]
    ELSE [heap |-> tokenAt(h, lt, h[this].tokenIndex - 1, this).heap, ret |-> this]

next(h, lt, this) ==
    IF ~hasNext(h[this]) THEN [heap |-> h, ret |-> Null]
    ELSE [heap |-> tokenAt(h, lt, h[this].tokenIndex + 1, this).heap, ret |-> this]

findTokenAtOffset(h, lt, offset) == tokenAt(h, lt, findTokenIndexAtOffset(lt, offset), Null)

\* A slip: the empty line is recognised by its token count.
firstTokenByCount(h, lt) ==
    IF lt.tokensCount = 0 THEN [heap |-> h, ret |-> Null] ELSE tokenAt(h, lt, 0, Null)


firstToken(h, lt) ==
    IF lt.textLength = 0 THEN [heap |-> h, ret |-> Null] ELSE tokenAt(h, lt, 0, Null)

lastToken(h, lt) ==
    IF lt.textLength = 0 THEN [heap |-> h, ret |-> Null]
    ELSE tokenAt(h, lt, lt.tokensCount - 1, Null)

---------------------------------------------------------------------------
(* The buffers and arrays the model starts from. *)

\* A line's text of length n (its characters play no part outside equals).
TextOf(n) == [i \in 1..n |-> "a"]

\* The packed array of the tokens with end offsets (or lengths, or start
\* offsets) e and metadata words m.
Pack(e, m) ==
    [i \in 1..(2 * Len(e)) |-> IF i % 2 = 1 THEN e[(i + 1) \div 2] ELSE m[i \div 2]]

\* A token is a maximal run of characters with one metadata word: the words of
\* two tokens next to each other differ.
Metadata(n) == {m \in [1..n -> MetaWords] : \A i \in 1..(n - 1) : m[i] # m[i + 1]}

Packed(offsets, n) == {Pack(e, m) : e \in offsets, m \in Metadata(n)}

\* n end offsets, strictly increasing, the last one the line's length.
EndOffsets(len, n) ==
    {e \in [1..n -> 0..len] : e[n] = len /\ \A i \in 1..(n - 1) : e[i] < e[i + 1]}

\* n token lengths, each at least 1, that add up to the line's length.
RECURSIVE Sum(_, _)
Sum(f, n) == IF n = 0 THEN 0 ELSE f[n] + Sum(f, n - 1)
Lengths(len, n) == {l \in [1..n -> 1..Max(len, 1)] : Sum(l, n) = len}

\* n start offsets as a tokenizer emits them: the first 0, strictly increasing,
\* all inside the line (an empty line has the one token that starts at 0).
StartOffsets(len, n) ==
    {t \in [1..n -> 0..len] : /\ t[1] = 0
                              /\ \A i \in 1..(n - 1) : t[i] < t[i + 1]
                              /\ (t[n] < len \/ (n = 1 /\ len = 0))}

\* Arbitrary arrays, of odd length too.
RawArrays == UNION {[1..n -> 0..MaxRawValue] : n \in 0..MaxRawLen}

WellFormedArrays(len, maxTokens) == UNION {Packed(EndOffsets(len, n), n) : n \in 1..maxTokens}

\* The buffer invariants: an even array of N >= 1 tokens, end offsets strictly
\* increasing, the last one the text's length.
WellFormed(lt) ==
    /\ Len(lt.tokens) = 2 * lt.tokensCount
    /\ lt.tokensCount >= 1
    /\ \A i \in 0..(lt.tokensCount - 2) : getEndOffset(lt, i) < getEndOffset(lt, i + 1)
    /\ getEndOffset(lt, lt.tokensCount - 1) = lt.textLength

NoCall == [name |-> "none", args |-> <<>>]
NoOther == LineTokens(<<>>, <<>>)
NoHeap == [a \in Addrs |-> Free]
NoRefs == [v \in CursorVars |-> Null]

---------------------------------------------------------------------------
(* Cursors over one buffer: the client holds two cursor variables. *)

Init ==
    /\ \/ \E len \in 0..MaxCursorTextLen :
              /\ text = TextOf(len)
              /\ tokens \in WellFormedArrays(len, MaxCursorTokens)
       \/ \E len \in 0..1 :
              /\ text = TextOf(len)
              /\ tokens \in RawArrays
    /\ other = NoOther
    /\ heap = NoHeap
    /\ ref = NoRefs
    /\ op = NoCall
    /\ ret = Null
    /\ pc = "idle"
    /\ dir = "fwd"
    /\ visited = <<>>
    /\ moves = 0

\* v = <a call that returns a cursor or null>
Assign(v, r, name) ==
    /\ ref' = [ref EXCEPT ![v] = r.ret]
    /\ heap' = Collect(r.heap, ref')
    /\ op' = [name |-> name, args |-> <<v>>]
    /\ ret' = r.ret
    /\ UNCHANGED <<tokens, text, other, pc, dir, visited, moves>>

CallFirstToken(v) == Assign(v, firstToken(heap, This), "firstToken")

CallLastToken(v) == Assign(v, lastToken(heap, This), "lastToken")

CallFindTokenAtOffset(v, offset) ==
    Assign(v, findTokenAtOffset(heap, This, offset), "findTokenAtOffset")

\* tokenAt(i) with an index of the buffer; any other index is the caller's error.
CallTokenAt(v, tokenIndex) ==
    /\ tokenIndex >= 0 /\ tokenIndex < getCount(This)
    /\ Assign(v, tokenAt(heap, This, tokenIndex, Null), "tokenAt")

\* w = v.clone()
CallClone(v, w) ==
    /\ ref[v] # Null
    /\ ref' = [ref EXCEPT ![w] = clone(heap, ref[v]).ret]
    /\ heap' = Collect(clone(heap, ref[v]).heap, ref')
    /\ op' = [name |-> "clone", args |-> <<v, w>>]
    /\ ret' = ref'[w]
    /\ UNCHANGED <<tokens, text, other, pc, dir, visited, moves>>

\* v.prev() and v.next(); the client keeps v and looks at what was returned.
Move(v, r, name) ==
    /\ ref[v] # Null
    /\ heap' = r.heap
    /\ op' = [name |-> name, args |-> <<v>>]
    /\ ret' = r.ret
    /\ UNCHANGED <<tokens, text, other, ref, pc, dir, visited, moves>>

CallPrev(v) == ref[v] # Null /\ Move(v, prev(heap, This, ref[v]), "prev")

CallNext(v) == ref[v] # Null /\ Move(v, next(heap, This, ref[v]), "next")

Next ==
    \/ \E v \in CursorVars : CallFirstToken(v)
    \/ \E v \in CursorVars : CallLastToken(v)
    \/ \E v \in CursorVars : \E offset \in 0..Len(text) : CallFindTokenAtOffset(v, offset)
    \/ \E v \in CursorVars : \E tokenIndex \in 0..MaxCursorTokens : CallTokenAt(v, tokenIndex)
    \/ \E v \in CursorVars : \E w \in CursorVars \ {v} : CallClone(v, w)
    \/ \E v \in CursorVars : CallPrev(v)
    \/ \E v \in CursorVars : CallNext(v)

Spec == Init /\ [][Next]_vars

---------------------------------------------------------------------------
(* A traversal: for (t = firstToken(); t; t = t.next()), or the same from  *)
(* lastToken() with prev().  The loop's cursor variable is "a".            *)

Position(it) ==
    [index |-> it.tokenIndex, startOffset |-> it.startOffset, endOffset |-> it.endOffset]

InitTraverse ==
    /\ \/ \E len \in 0..MaxCursorTextLen :
              /\ text = TextOf(len)
              /\ tokens \in WellFormedArrays(len, MaxCursorTokens)
       \/ \E len \in 0..1 :
              /\ text = TextOf(len)
              /\ tokens \in RawArrays
    /\ other = NoOther
    /\ heap = NoHeap
    /\ ref = NoRefs
    /\ op = NoCall
    /\ ret = Null
    /\ pc = "start"
    /\ dir \in {"fwd", "bwd"}
    /\ visited = <<>>
    /\ moves = 0

\* t = <call>: the loop ends when the call returned null.
Step(r, name, moved) ==
    /\ ref' = [ref EXCEPT !["a"] = r.ret]
    /\ heap' = Collect(r.heap, ref')
    /\ op' = [name |-> name, args |-> <<"a">>]
    /\ ret' = r.ret
    /\ pc' = IF r.ret = Null THEN "done" ELSE "loop"
    /\ visited' = IF r.ret = Null THEN visited ELSE Append(visited, Position(r.heap[r.ret]))
    /\ moves' = IF r.ret = Null THEN moves ELSE moves + moved
    /\ UNCHANGED <<tokens, text, other, dir>>

TraverseStart ==
    /\ pc = "start"
    /\ IF dir = "fwd" THEN Step(firstToken(heap, This), "firstToken", 0)
                      ELSE Step(lastToken(heap, This), "lastToken", 0)

TraverseMove ==
    /\ pc = "loop"
    /\ IF dir = "fwd" THEN Step(next(heap, This, ref["a"]), "next", 1)
                      ELSE Step(prev(heap, This, ref["a"]), "prev", 1)

NextTraverse == TraverseStart \/ TraverseMove

\* The loop is sequential code: it runs until it ends.
SpecTraverse == InitTraverse /\ [][NextTraverse]_vars /\ WF_vars(NextTraverse)

---------------------------------------------------------------------------
(* Searching and slicing a well-formed buffer. *)

InitQuery ==
    /\ \E len \in 0..MaxTextLen :
           /\ text = TextOf(len)
           /\ tokens \in WellFormedArrays(len, MaxTokens)
    /\ other = NoOther
    /\ heap = NoHeap
    /\ ref = NoRefs
    /\ op = NoCall
    /\ ret = Null
    /\ pc = "idle"
    /\ dir = "fwd"
    /\ visited = <<>>
    /\ moves = 0

\* The two queries change nothing: each behaviour makes one call.
CallFindTokenIndexAtOffset(offset) ==
    /\ op = NoCall
    /\ op' = [name |-> "findTokenIndexAtOffset", args |-> <<offset>>]
    /\ ret' = findTokenIndexAtOffset(This, offset)
    /\ UNCHANGED <<tokens, text, other, heap, ref, pc, dir, visited, moves>>

CallSliceAndInflate(startOffset, endOffset, deltaOffset) ==
    /\ op = NoCall
    /\ op' = [name |-> "sliceAndInflate", args |-> <<startOffset, endOffset, deltaOffset>>]
    /\ ret' = sliceAndInflate(This, startOffset, endOffset, deltaOffset)
    /\ UNCHANGED <<tokens, text, other, heap, ref, pc, dir, visited, moves>>

NextQuery ==
    \/ \E offset \in (-1)..(Len(text) + 1) : CallFindTokenIndexAtOffset(offset)
    \/ \E startOffset \in 0..Len(text) : \E endOffset \in 0..(Len(text) + 1) :
           \E deltaOffset \in {0, MaxDelta} :
               CallSliceAndInflate(startOffset, endOffset, deltaOffset)

SpecQuery == InitQuery /\ [][NextQuery]_vars

---------------------------------------------------------------------------
(* Comparing two buffers built over arbitrary arrays. *)

EqualsTexts == UNION {[1..n -> Chars] : n \in 0..1}

InitEquals ==
    /\ tokens \in RawArrays
    /\ text \in EqualsTexts
    /\ \E toks \in RawArrays : \E txt \in EqualsTexts : other = LineTokens(toks, txt)
    /\ heap = NoHeap
    /\ ref = NoRefs
    /\ op = NoCall
    /\ ret = Null
    /\ pc = "idle"
    /\ dir = "fwd"
    /\ visited = <<>>
    /\ moves = 0

CallEquals ==
    /\ op = NoCall
    /\ op' = [name |-> "equals", args |-> <<>>]
    /\ ret' = equals(This, other)
    /\ UNCHANGED <<tokens, text, other, heap, ref, pc, dir, visited, moves>>

NextEquals == CallEquals

SpecEquals == InitEquals /\ [][NextEquals]_vars

---------------------------------------------------------------------------
(* The tokenizer's array, converted in place before the buffer is built.   *)
(* The array holds start offsets as the tokenizer emits them, or token     *)
(* lengths, or anything at all.                                            *)

InitConvert ==
    /\ \/ \E len \in 0..MaxTextLen : \E n \in 1..MaxTokens :
              /\ text = TextOf(len)
              /\ tokens \in Packed(StartOffsets(len, n), n) \cup Packed(Lengths(len, n), n)
       \/ \E len \in 0..MaxTextLen :
              /\ text = TextOf(len)
              /\ tokens \in RawArrays
    /\ other = NoOther
    /\ heap = NoHeap
    /\ ref = NoRefs
    /\ op = NoCall
    /\ ret = Null
    /\ pc = "idle"
    /\ dir = "fwd"
    /\ visited = <<>>
    /\ moves = 0

\* LineTokens.convertToEndOffset(tokens, text.length); op keeps the array as passed.
CallConvertToEndOffset ==
    /\ tokens' = convertToEndOffset(tokens, Len(text))
    /\ op' = [name |-> "convertToEndOffset", args |-> <<tokens, Len(text)>>]
    /\ ret' = Null
    /\ UNCHANGED <<text, other, heap, ref, pc, dir, visited, moves>>

NextConvert == CallConvertToEndOffset

SpecConvert == InitConvert /\ [][NextConvert]_vars

---------------------------------------------------------------------------
(* The properties. *)

\* The cursor variable v refers to, before and after the step.
Cursor(v) == heap[ref[v]]
Called(name, v) == op.name = name /\ op.args = <<v>>

\* C1 as stated: on a well-formed buffer of N >= 1 tokens and an offset o in
\* [0, text.length], findTokenIndexAtOffset(o) is an index i of the buffer with
\* startOffset(i) <= o and (o < endOffset(i) or i = N-1); an offset that is the
\* end offset of a token before the last gives the token after it; o <= 0 gives 0.
C1_AsStated ==
    (op.name = "findTokenIndexAtOffset" /\ WellFormed(This)) =>
        LET o == op.args[1]
            n == getCount(This)
        IN  /\ o \in 0..Len(text) =>
                   /\ ret \in 0..(n - 1)
                   /\ getStartOffset(This, ret) <= o
                   /\ (o < getEndOffset(This, ret) \/ ret = n - 1)
            /\ \A i \in 0..(n - 2) : o = getEndOffset(This, i) => ret = i + 1
            /\ o <= 0 => ret = 0

\* No token but the one of an empty line is empty: the first end offset of a
\* buffer of several tokens is past 0.
NoEmptyFirstToken(lt) == lt.tokensCount > 1 => getEndOffset(lt, 0) > 0

\* C1, amended: the same, on the well-formed buffers whose first token is not
\* empty when there are several tokens.
C1_FindTokenIndexAtOffset ==
    (op.name = "findTokenIndexAtOffset" /\ WellFormed(This) /\ NoEmptyFirstToken(This)) =>
        LET o == op.args[1]
            n == getCount(This)
        IN  /\ o \in 0..Len(text) =>
                   /\ ret \in 0..(n - 1)
                   /\ getStartOffset(This, ret) <= o
                   /\ (o < getEndOffset(This, ret) \/ ret = n - 1)
            /\ \A i \in 0..(n - 2) : o = getEndOffset(This, i) => ret = i + 1
            /\ o <= 0 => ret = 0

\* A search at the boundary between the first two of three tokens.
C1_Witness ==
    /\ op.name = "findTokenIndexAtOffset"
    /\ WellFormed(This) /\ NoEmptyFirstToken(This)
    /\ getCount(This) = 3
    /\ op.args[1] = getEndOffset(This, 0)
    /\ ret = 1

\* The even slots of an array of n tokens.
EvenSlots(arr) == [i \in 1..Shr1(Len(arr)) |-> Get(arr, Shl1(i - 1))]

\* The array holds token lengths that add up to the line's length.
HoldsLengths(arr, lineTextLength) ==
    /\ Len(arr) % 2 = 0
    /\ Len(arr) >= 2
    /\ \A i \in 1..Shr1(Len(arr)) : EvenSlots(arr)[i] >= 1
    /\ Sum(EvenSlots(arr), Shr1(Len(arr))) = lineTextLength

\* The array holds start offsets: the first 0, strictly increasing, all
\* inside the line (or the one start offset 0 of an empty line).
HoldsStartOffsets(arr, lineTextLength) ==
    /\ Len(arr) % 2 = 0
    /\ Len(arr) >= 2
    /\ EvenSlots(arr) \in StartOffsets(lineTextLength, Shr1(Len(arr)))

C3_EqualsIsIdentity ==
    op.name = "equals" =>
        /\ ret = (text = other.text /\ getCount(This) = getCount(other)
                                   /\ tokens = other.tokens)
        /\ equals(This, This)
        /\ equals(This, other) = equals(other, This)

\* C4: next() on a cursor at the last token (where hasNext is false) returns
\* null and changes nothing; prev() on a cursor at token 0 (where hasPrev is
\* false) returns null and changes nothing.
C4_NoMoveAtTheEnds ==
    [][\A v \in CursorVars :
          /\ (Called("next", v)' /\ Cursor(v).tokenIndex = getCount(This) - 1) =>
                 /\ ~hasNext(Cursor(v))
                 /\ ret' = Null
                 /\ heap' = heap /\ ref' = ref
          /\ (Called("prev", v)' /\ Cursor(v).tokenIndex = 0) =>
                 /\ ~hasPrev(Cursor(v))
                 /\ ret' = Null
                 /\ heap' = heap /\ ref' = ref]_vars

\* next() was called on a cursor at the last of several tokens and returned null.
C4_Witness ==
    \E v \in CursorVars :
        /\ Called("next", v)
        /\ ret = Null
        /\ getCount(This) >= 2
        /\ Cursor(v).tokenIndex = getCount(This) - 1

\* C5: w = v.clone() leaves in w a new cursor with v's index, offsets and
\* metadata; prev() and next() on one cursor variable leave the cursor of the
\* other variable as it was.
C5_CloneIsIndependent ==
    [][\A v \in CursorVars : \A w \in CursorVars \ {v} :
          /\ (op.name = "clone" /\ op.args = <<v, w>>)' =>
                 /\ ref'[w] # Null /\ ref'[w] # ref'[v]
                 /\ Cursor(w)' = Cursor(v)
                 /\ Cursor(v)' = Cursor(v)
          /\ ((Called("next", v) \/ Called("prev", v))' /\ ref[w] # Null) =>
                 /\ ref'[w] = ref[w]
                 /\ Cursor(w)' = Cursor(w)]_vars

\* One of two cursors has moved away from the other.
C5_Witness ==
    \E v \in CursorVars : \E w \in CursorVars \ {v} :
        /\ Called("next", v)
        /\ ret # Null
        /\ ref[w] # Null
        /\ Cursor(v).tokenIndex = Cursor(w).tokenIndex + 1

\* C6: firstToken() and lastToken() return null when the text is empty,
\* whatever the array holds; otherwise firstToken() returns a cursor at
\* token 0 and lastToken() one at token N-1, whose end offset is the text's
\* length when the buffer is well formed.
C6_FirstAndLastToken ==
    /\ op.name = "firstToken" =>
           IF Len(text) = 0 THEN ret = Null
           ELSE ret # Null /\ heap[ret].tokenIndex = 0
    /\ op.name = "lastToken" =>
           IF Len(text) = 0 THEN ret = Null
           ELSE /\ ret # Null
                /\ heap[ret].tokenIndex = getCount(This) - 1
                /\ WellFormed(This) => heap[ret].endOffset = Len(text)

\* firstToken() returned null on an empty text whose array holds a token.
C6_Witness ==
    /\ op.name = "firstToken"
    /\ Len(text) = 0
    /\ getCount(This) >= 1
    /\ ret = Null

\* The descriptors of the tokens from index i on that overlap [from, to).
RECURSIVE Overlapping(_, _, _, _, _)
Overlapping(lt, i, from, to, delta) ==
    IF i >= getCount(lt) THEN <<>>
    ELSE LET lo == Max(getStartOffset(lt, i), from)
             hi == Min(getEndOffset(lt, i), to)
         IN  (IF lo < hi THEN <<ViewLineToken(lo + delta, hi + delta, getMetadata(lt, i))>>
                         ELSE <<>>)
             \o Overlapping(lt, i + 1, from, to, delta)

\* C7: sliceAndInflate(startOffset, endOffset, deltaOffset) on a well-formed
\* buffer returns, in token order, one descriptor for each token whose range
\* meets [startOffset, endOffset) in a non-empty interval, its range that
\* interval shifted by deltaOffset, and nothing else; (2, 5, 0) over the
\* ranges [0,3), [3,7), [7,9) gives [2,3) and [3,5).
C7_SliceAndInflate ==
    (op.name = "sliceAndInflate" /\ WellFormed(This)) =>
        /\ ret = Overlapping(This, 0, op.args[1], op.args[2], op.args[3])
        /\ (EvenSlots(tokens) = <<3, 7, 9>> /\ op.args = <<2, 5, 0>>) =>
               /\ Len(ret) = 2
               /\ ret[1].startOffset = 2 /\ ret[1].endOffset = 3
               /\ ret[2].startOffset = 3 /\ ret[2].endOffset = 5

\* The slice (2, 5, 0) of the ranges [0,3), [3,7), [7,9) has been taken.
C7_Witness ==
    /\ op.name = "sliceAndInflate"
    /\ EvenSlots(tokens) = <<3, 7, 9>>
    /\ op.args = <<2, 5, 0>>
    /\ Len(ret) = 2

\* The cursor's cached fields are those of its token in the buffer.
Coherent(it) ==
    /\ it.tokenIndex \in 0..(getCount(This) - 1)
    /\ it.startOffset = getStartOffset(This, it.tokenIndex)
    /\ it.endOffset = getEndOffset(This, it.tokenIndex)
    /\ it.metadata = getMetadata(This, it.tokenIndex)

\* C8: on a well-formed buffer, every cursor got from firstToken(),
\* lastToken(), findTokenAtOffset(o) or tokenAt(i), 0 <= i < N, stays, through
\* any prev(), next() and clone(), at an index of the buffer with the start
\* offset, end offset and metadata of that token; a next() that moves adds 1
\* to the index and a prev() that moves takes 1 from it.
C8_CursorCoherence ==
    [][WellFormed(This) =>
          \A v \in CursorVars :
              /\ ref'[v] # Null => Coherent(Cursor(v)')
              /\ (Called("next", v)' /\ ret' # Null) =>
                     Cursor(v)'.tokenIndex = Cursor(v).tokenIndex + 1
              /\ (Called("prev", v)' /\ ret' # Null) =>
                     Cursor(v)'.tokenIndex = Cursor(v).tokenIndex - 1]_vars

\* prev() has moved a cursor to the middle one of three tokens.
C8_Witness ==
    \E v \in CursorVars :
        /\ Called("prev", v)
        /\ ret # Null
        /\ WellFormed(This)
        /\ getCount(This) = 3
        /\ Cursor(v).tokenIndex = 1

\* The traversal so far, on a well-formed buffer with a text: the tokens seen
\* are 0, 1, ... in order (N-1, N-2, ... backwards), each starts where the one
\* seen before it ends (backwards: ends where it starts), and once the loop
\* is over all N tokens have been seen in N-1 moves.
TraversalSoFar ==
    (WellFormed(This) /\ Len(text) > 0) =>
        LET n == getCount(This)
        IN  /\ moves <= n - 1
            /\ \A k \in 1..Len(visited) :
                   visited[k].index = IF dir = "fwd" THEN k - 1 ELSE n - k
            /\ \A k \in 2..Len(visited) :
                   IF dir = "fwd" THEN visited[k].startOffset = visited[k - 1].endOffset
                                  ELSE visited[k].endOffset = visited[k - 1].startOffset
            /\ pc = "done" => (Len(visited) = n /\ moves = n - 1)

\* C9: the traversal from firstToken() with next() ends, after exactly N-1
\* moves that visit tokens 0 .. N-1 once each in order, each starting where
\* the one before ends; the traversal from lastToken() with prev() visits
\* N-1 .. 0 and ends.
C9_TraversalEndsComplete == []TraversalSoFar /\ <>(pc = "done")

\* A forward traversal of three tokens is over.
C9_Witness ==
    /\ pc = "done"
    /\ dir = "fwd"
    /\ WellFormed(This)
    /\ Len(visited) = 3
    /\ moves = 2

\* C10: convertToEndOffset leaves in each even slot 2i, i < N-1, what slot
\* 2(i+1) held, and lineTextLength in slot 2(N-1); the odd slots and the
\* array's length are as they were; an array of no token is left unchanged.
C10_ConvertShifts ==
    op.name = "convertToEndOffset" =>
        LET before == op.args[1]
            n == Shr1(Len(before))
        IN  /\ Len(tokens) = Len(before)
            /\ \A i \in 0..(n - 1) : Get(tokens, Shl1(i) + 1) = Get(before, Shl1(i) + 1)
            /\ \A i \in 0..(n - 2) : Get(tokens, Shl1(i)) = Get(before, Shl1(i + 1))
            /\ n >= 1 => Get(tokens, Shl1(n - 1)) = op.args[2]
            /\ n = 1 => \A i \in 1..(Len(before) - 1) : Get(tokens, i) = Get(before, i)
            /\ n = 0 => tokens = before

\* An array of three tokens has been converted and is no longer what it was.
C10_Witness ==
    /\ op.name = "convertToEndOffset"
    /\ Len(op.args[1]) = 6
    /\ tokens # op.args[1]

===========================================================================
